---- MODULE Spec2Model ----
(***************************************************************************)
(* Model of packages/event-handler/src/activity.ts: the activity event     *)
(* router _ActivityEvents (registry _handlers, on / once / onAny /         *)
(* onceAny / off, emit) and the chat room message handler that classifies  *)
(* an activity message into the set of event modes it is emitted to.       *)
(*                                                                         *)
(* emit calls listeners, and a listener is arbitrary code: while it runs   *)
(* it may call on / once / onAny / onceAny / off and may cause another     *)
(* activity message to be handled synchronously (a nested emit).  emit is  *)
(* therefore modelled as a stack of activations, one step per loop         *)
(* iteration, with the listener's calls interleaved between the call of a  *)
(* listener and its return or throw.                                       *)
(***************************************************************************)
EXTENDS Naturals, Sequences, FiniteSets

(* ---- bounds ---- *)
\* With MaxId = 4, MaxDepth = 3 and MaxCalls = 2 Spec has 11.9 million states (about
\* nine minutes of TLC) and SpecWide 7.8 million; the properties of emit stated below
\* hold there too.
MaxId == 3        \* registrations (Handler objects) created in one behaviour
MaxDepth == 2     \* nesting depth of emit
MaxCalls == 1     \* calls the listeners make on the router in one behaviour

(* ---- input sets ---- *)
Null == "null"                 \* activity: null
Undefined == "undefined"       \* off(mode, activity) without a listener
Activities == {"Kiss", "Slap"} \* activity names of the messages
SubActivities == {"Kiss"}      \* activity names the subscribers of the model name
Listeners == {"f"}             \* callback identities
OffListeners == {"f", "g"}     \* callback identities for the registry on its own
Senders == {2}                 \* member numbers of the senders
Targets == {1, 2}              \* member numbers of the targets
Player == 1                    \* Player.MemberNumber, the observer
ClsActors == {1, 2, 3}         \* member numbers for the classifier on its own

EventMode ==
    {"SelfOnSelf", "OthersOnSelf", "SelfOnOthers", "AnyOnSelf", "SelfInvolved", "AnyInvolved"}
SubModes == {"AnyOnSelf"}   \* modes the subscribers of the model use
OffModes == {"SelfOnSelf", "AnyOnSelf"}   \* modes for the registry on its own
WideModes == {"AnyInvolved", "AnyOnSelf", "SelfInvolved"}   \* the widened modes
WideActors == {1, 2}           \* senders and targets for the widened modes

VARIABLES
    handlers,   \* this._handlers: sequence of Handler
    stack,      \* activations of emit, innermost last
    nextId,     \* identity of the next Handler object created
    surfaced,   \* an error left emit to the message handler's caller
    ret,        \* <<record of the call>> right after an emit or an off returned, else <<>>
    fired,      \* ids of the Handler objects whose listener has been called
    refired,    \* ids of the Handler objects whose listener has been called again
    selfOff,    \* ids whose listener called off for its own entry and has returned
    calls,      \* calls the listeners have made on the router
    cls         \* the message handler's classification on its own

vars == <<handlers, stack, nextId, surfaced, ret, fired, refired, selfOff, calls, cls>>

(* ---- the mode sets ---- *)
\* (mutant) no widening: a category notifies its own mode and AnyInvolved
modesFiltersNarrow ==
    [OthersOnSelf |-> {"OthersOnSelf", "AnyInvolved"},
     SelfOnSelf |-> {"SelfOnSelf", "AnyInvolved"},
     SelfOnOthers |-> {"SelfOnOthers", "AnyInvolved"},
     OthersOnOthers |-> {"AnyInvolved"}]

modesFilters ==
    [OthersOnSelf |-> {"OthersOnSelf", "AnyOnSelf", "SelfInvolved", "AnyInvolved"},
     SelfOnSelf |-> {"SelfOnSelf", "AnyOnSelf", "SelfInvolved", "AnyInvolved"},
     SelfOnOthers |-> {"SelfOnOthers", "SelfInvolved", "AnyInvolved"},
     OthersOnOthers |-> {"AnyInvolved"}]

\* (mutant) the source is tested before the target
ClassifyModeSourceFirst(senderNum, sourceNum, targetNum, playerNum) ==
    IF sourceNum = playerNum
    THEN modesFilters.SelfOnOthers
    ELSE IF targetNum = playerNum
         THEN IF senderNum = targetNum
              THEN modesFilters.SelfOnSelf
              ELSE modesFilters.OthersOnSelf
         ELSE modesFilters.OthersOnOthers

\* the mode computed by Callback from sender.MemberNumber, info.SourceCharacter,
\* info.TargetCharacter and Player.MemberNumber
ClassifyMode(senderNum, sourceNum, targetNum, playerNum) ==
    IF targetNum = playerNum
    THEN IF senderNum = targetNum
         THEN modesFilters.SelfOnSelf
         ELSE modesFilters.OthersOnSelf
    ELSE IF sourceNum = playerNum
         THEN modesFilters.SelfOnOthers
         ELSE modesFilters.OthersOnOthers

(* ---- emit's tests ---- *)
\* (mutant) a null activity does not match
MatchesNamedOnly(handler, modeFilter, activityName) ==
    /\ activityName = handler.activity
    /\ handler.mode \in modeFilter

\* the condition of the loop body
Matches(handler, modeFilter, activityName) ==
    /\ (handler.activity = Null \/ activityName = handler.activity)
    /\ handler.mode \in modeFilter

\* (mutant) a called once handler is pushed to nHandlers too
KeptAlways(handler) == TRUE

\* a called handler is pushed to nHandlers
Kept(handler) == ~handler.once

\* (mutant) no try / catch
CaughtReturnOnly(outcome) == outcome = "return"

\* the try / catch around the listener call: the outcomes that do not leave emit
Caught(outcome) == outcome \in {"return", "throw"}

\* (mutant) the loop iterates over this._handlers
IteratedLive(cpListeners, live) == live

\* (mutant) the loop iterates over the copy from its end
IteratedBackwards(cpListeners, live) ==
    [k \in 1..Len(cpListeners) |-> cpListeners[Len(cpListeners) + 1 - k]]

\* the sequence the loop iterates over
Iterated(cpListeners, live) == cpListeners

\* (mutant) the activity is not compared
OffKeepsModeOnly(handler, mode, activity, listener) ==
    IF listener = Undefined
    THEN handler.mode # mode
    ELSE handler.mode # mode \/ handler.listener # listener

\* (mutant) the listener is not compared
OffKeepsAnyListener(handler, mode, activity, listener) ==
    handler.mode # mode \/ handler.activity # activity

\* (mutant) the comparisons are inverted: the entries equal to the arguments stay
OffKeepsEqual(handler, mode, activity, listener) ==
    IF listener = Undefined
    THEN handler.mode = mode /\ handler.activity = activity
    ELSE handler.mode = mode /\ handler.activity = activity /\ handler.listener = listener

\* off's filter predicate
OffKeeps(handler, mode, activity, listener) ==
    IF listener = Undefined
    THEN handler.mode # mode \/ handler.activity # activity
    ELSE handler.mode # mode \/ handler.activity # activity \/ handler.listener # listener

(* ---- helpers ---- *)
Ids(s) == {s[k].id : k \in 1..Len(s)}

Top == stack[Len(stack)]

AtRest == stack = <<>>

\* the router may be called: by the program at rest, or by the running listener
CanCall ==
    \/ AtRest
    \/ /\ ~AtRest
       /\ Top.inCall
       /\ calls < MaxCalls

SetTop(f) == [stack EXCEPT ![Len(stack)] = f]

Called == IF AtRest THEN calls ELSE calls + 1

NoCls == [info |-> TRUE, sender |-> Player, source |-> Player, target |-> Player,
          player |-> Player, done |-> TRUE, out |-> {}]

Init ==
    /\ handlers = <<>>
    /\ stack = <<>>
    /\ nextId = 1
    /\ surfaced = FALSE
    /\ ret = <<>>
    /\ fired = {}
    /\ refired = {}
    /\ selfOff = {}
    /\ calls = 0
    /\ cls = NoCls

\* the element the loop has reached
Current == Iterated(Top.cp, handlers)[Top.i]

\* the loop variable handler while its listener runs
Running == Top.cur[1]

(* ---- subscribe ---- *)
\* (mutant) a registration equal to a registered entry is merged with it
PushMerged(mode, activity, listener, isOnce) ==
    /\ CanCall
    /\ nextId <= MaxId
    /\ handlers' =
          IF \E k \in 1..Len(handlers) :
                /\ handlers[k].mode = mode
                /\ handlers[k].activity = activity
                /\ handlers[k].listener = listener
          THEN handlers
          ELSE Append(handlers,
                      [id |-> nextId, mode |-> mode, activity |-> activity,
                       listener |-> listener, once |-> isOnce])
    /\ nextId' = nextId + 1
    /\ stack' = stack
    /\ calls' = Called
    /\ ret' = <<>>
    /\ UNCHANGED <<surfaced, fired, refired, selfOff, cls>>

Push(mode, activity, listener, isOnce) ==
    /\ CanCall
    /\ nextId <= MaxId
    /\ handlers' = Append(handlers,
                          [id |-> nextId, mode |-> mode, activity |-> activity,
                           listener |-> listener, once |-> isOnce])
    /\ nextId' = nextId + 1
    /\ stack' = [k \in 1..Len(stack) |->
                    [stack[k] EXCEPT !.added = @ \cup {handlers'[Len(handlers')]}]]
    /\ calls' = Called
    /\ ret' = <<>>
    /\ UNCHANGED <<surfaced, fired, refired, selfOff, cls>>

on(mode, activity, listener) == Push(mode, activity, listener, FALSE)

once(mode, activity, listener) == Push(mode, activity, listener, TRUE)

onAny(mode, listener) == Push(mode, Null, listener, FALSE)

onceAny(mode, listener) == Push(mode, Null, listener, TRUE)

(* ---- unsubscribe ---- *)
off(mode, activity, listener) ==
    /\ CanCall
    /\ handlers' = SelectSeq(handlers, LAMBDA h : OffKeeps(h, mode, activity, listener))
    /\ stack' = IF AtRest
                THEN stack
                ELSE SetTop([Top EXCEPT
                        !.offs = @ \cup (Ids(handlers) \ Ids(handlers')),
                        !.offSelf = @ \/ ~OffKeeps(Running, mode, activity, listener)])
    /\ calls' = Called
    /\ ret' = <<[kind |-> "off", before |-> handlers, mode |-> mode,
                 activity |-> activity, listener |-> listener]>>
    /\ UNCHANGED <<nextId, surfaced, fired, refired, selfOff, cls>>

(* ---- the message handler and emit ---- *)
\* An activation of emit is a record: cp (cpListeners), n (nHandlers), i (position
\* of the loop in cp), modeFilter, activityName, source and target (the member
\* numbers of the message), inCall (a listener is running),
\* cur (<<the loop variable handler>> once a listener has been called), and the
\* history of the activation: inv (ids of the handlers called), thrAt (position of
\* the first listener that threw, 0 if none), added (handlers subscribed while it
\* was in progress), offs (ids removed by its listeners' off calls), offSelf (the
\* running listener called off for its own entry), nested (a nested emit returned),
\* nestedOnce (ids of the once handlers called by the nested emits that returned),
\* recalled (it called a handler of nestedOnce).
\* Callback with activity info present: classify, then emit takes its snapshot
Callback(senderNum, sourceNum, targetNum, activityName) ==
    /\ CanCall
    /\ Len(stack) < MaxDepth
    /\ stack' = Append(stack,
            [kind |-> "emit", cp |-> handlers, n |-> <<>>, i |-> 1,
             modeFilter |-> ClassifyMode(senderNum, sourceNum, targetNum, Player),
             activityName |-> activityName, source |-> sourceNum, target |-> targetNum,
             inCall |-> FALSE, cur |-> <<>>,
             inv |-> {}, thrAt |-> 0, added |-> {}, offs |-> {},
             offSelf |-> FALSE, nested |-> FALSE, nestedOnce |-> {}, recalled |-> FALSE])
    /\ calls' = Called
    /\ ret' = <<>>
    /\ UNCHANGED <<handlers, nextId, surfaced, fired, refired, selfOff, cls>>

InLoop ==
    /\ ~AtRest
    /\ ~Top.inCall
    /\ Top.i <= Len(Iterated(Top.cp, handlers))

\* loop body, else branch
EmitSkip ==
    /\ InLoop
    /\ ~Matches(Current, Top.modeFilter, Top.activityName)
    /\ stack' = SetTop([Top EXCEPT !.n = Append(@, Current), !.i = @ + 1])
    /\ ret' = <<>>
    /\ UNCHANGED <<handlers, nextId, surfaced, fired, refired, selfOff, calls, cls>>

\* loop body, then branch up to the call of the listener
EmitCall ==
    /\ InLoop
    /\ Matches(Current, Top.modeFilter, Top.activityName)
    /\ stack' = SetTop([Top EXCEPT !.inCall = TRUE, !.cur = <<Current>>, !.offSelf = FALSE,
                                   !.inv = @ \cup {Current.id},
                                   !.recalled = @ \/ Current.id \in Top.nestedOnce])
    /\ fired' = IF Current.once THEN fired \cup {Current.id} ELSE fired
    /\ refired' = IF Current.id \in fired THEN refired \cup {Current.id} ELSE refired
    /\ ret' = <<>>
    /\ UNCHANGED <<handlers, nextId, surfaced, selfOff, calls, cls>>

\* the listener returns or throws; the rest of the then branch
ListenerEnds(outcome) ==
    /\ ~AtRest
    /\ Top.inCall
    /\ selfOff' = IF Top.offSelf THEN selfOff \cup {Running.id} ELSE selfOff
    /\ IF Caught(outcome)
       THEN /\ stack' = SetTop([Top EXCEPT
                    !.inCall = FALSE,
                    !.thrAt = IF outcome = "throw" /\ @ = 0 THEN Top.i ELSE @,
                    !.n = IF Kept(Running) THEN Append(@, Running) ELSE @,
                    !.i = @ + 1])
            /\ UNCHANGED surfaced
            /\ ret' = <<>>
       ELSE /\ stack' = <<>>
            /\ surfaced' = TRUE
            /\ ret' = <<[Top EXCEPT !.thrAt = Top.i]>>
    /\ UNCHANGED <<handlers, nextId, fired, refired, calls, cls>>

ListenerReturns == ListenerEnds("return")

ListenerThrows == ListenerEnds("throw")

\* (mutant) emit returns without the assignment to this._handlers
EmitEndUnassigned ==
    /\ ~AtRest
    /\ ~Top.inCall
    /\ Top.i > Len(Iterated(Top.cp, handlers))
    /\ ret' = <<Top>>
    /\ stack' = SubSeq(stack, 1, Len(stack) - 1)
    /\ UNCHANGED <<handlers, nextId, surfaced, fired, refired, selfOff, calls, cls>>

\* after the loop: this._handlers = nHandlers, and emit returns
EmitEnd ==
    /\ ~AtRest
    /\ ~Top.inCall
    /\ Top.i > Len(Iterated(Top.cp, handlers))
    /\ handlers' = Top.n
    /\ ret' = <<Top>>
    /\ stack' = IF Len(stack) = 1
                THEN <<>>
                ELSE [SubSeq(stack, 1, Len(stack) - 1) EXCEPT
                        ![Len(stack) - 1].nested = TRUE,
                        ![Len(stack) - 1].nestedOnce =
                            @ \cup Top.nestedOnce
                              \cup {Top.cp[k].id : k \in {j \in 1..Len(Top.cp) :
                                        Top.cp[j].once /\ Top.cp[j].id \in Top.inv}}]
    /\ UNCHANGED <<nextId, surfaced, fired, refired, selfOff, calls, cls>>

Next ==
    \/ \E m \in SubModes, a \in SubActivities, l \in Listeners : on(m, a, l)
    \/ \E m \in SubModes, a \in SubActivities, l \in Listeners : once(m, a, l)
    \/ \E m \in SubModes, l \in Listeners : onAny(m, l)
    \/ \E m \in SubModes, l \in Listeners : onceAny(m, l)
    \/ \E m \in SubModes, a \in SubActivities \cup {Null}, l \in Listeners \cup {Undefined} :
          off(m, a, l)
    \/ \E s \in Senders, t \in Targets, a \in Activities : Callback(s, s, t, a)
    \/ EmitSkip
    \/ EmitCall
    \/ ListenerReturns
    \/ ListenerThrows
    \/ EmitEnd

Spec == Init /\ [][Next]_vars

(* ---- the registry on its own: subscribe and unsubscribe at rest ---- *)
NextOff ==
    \/ \E m \in OffModes, a \in SubActivities, l \in OffListeners : on(m, a, l)
    \/ \E m \in OffModes, a \in SubActivities, l \in OffListeners : once(m, a, l)
    \/ \E m \in OffModes, l \in OffListeners : onAny(m, l)
    \/ \E m \in OffModes, l \in OffListeners : onceAny(m, l)
    \/ \E m \in OffModes, a \in SubActivities \cup {Null}, l \in OffListeners \cup {Undefined} :
          off(m, a, l)

SpecOff == Init /\ [][NextOff]_vars

(* ---- match-any listeners on the widened modes, messages in every direction ---- *)
NextWide ==
    \/ \E m \in WideModes, l \in Listeners : onAny(m, l)
    \/ \E s \in WideActors, t \in WideActors, a \in SubActivities : Callback(s, s, t, a)
    \/ EmitSkip
    \/ EmitCall
    \/ ListenerReturns
    \/ ListenerThrows
    \/ EmitEnd

SpecWide == Init /\ [][NextWide]_vars

(* ---- the message handler's classification on its own ---- *)
InitClassify ==
    /\ handlers = <<>>
    /\ stack = <<>>
    /\ nextId = 1
    /\ surfaced = FALSE
    /\ ret = <<>>
    /\ fired = {}
    /\ refired = {}
    /\ selfOff = {}
    /\ calls = 0
    /\ cls \in [info : BOOLEAN, sender : ClsActors, source : ClsActors, target : ClsActors,
                player : ClsActors, done : {FALSE}, out : {{}}]

\* Callback up to the call of the runner: no activity info, or the mode handed to emit
CallbackMode ==
    /\ ~cls.done
    /\ cls' = [cls EXCEPT
                 !.done = TRUE,
                 !.out = IF cls.info
                         THEN ClassifyMode(cls.sender, cls.source, cls.target, cls.player)
                         ELSE {}]
    /\ UNCHANGED <<handlers, stack, nextId, surfaced, ret, fired, refired, selfOff, calls>>

NextClassify == CallbackMode

SpecClassify == InitClassify /\ [][NextClassify]_vars

(***************************************************************************)
(* Properties                                                              *)
(***************************************************************************)
\* the activations of emit: those in progress and the one that has just returned
Activations ==
    {stack[k] : k \in 1..Len(stack)} \cup {ret[k] : k \in {j \in 1..Len(ret) : ret[j].kind = "emit"}}

\* an emit has just returned
Returned == ret # <<>> /\ ret[1].kind = "emit"

\* an off has just returned
OffReturned == ret # <<>> /\ ret[1].kind = "off"

\* the event of activation f is one entry h subscribed to
ShouldFire(h, f) ==
    /\ f.modeFilter \cap {h.mode} # {}
    /\ h.activity \in {Null, f.activityName}

\* the snapshot positions activation f has decided so far
Decided(f) ==
    LET upto == IF f.inCall THEN f.i ELSE f.i - 1
    IN  {k \in 1..Len(f.cp) : k <= upto}

\* C1: a once handler's listener is called at most one time, nested emits included
C1_OnceFiresAtMostOnce == refired = {}

\* C2: when a listener threw, every matching entry after it in the snapshot was
\* called in the same emit
C2_ThrowDoesNotStopLaterListeners ==
    Returned /\ ret[1].thrAt > 0 =>
        \A k \in 1..Len(ret[1].cp) :
            k > ret[1].thrAt /\ ShouldFire(ret[1].cp[k], ret[1]) => ret[1].cp[k].id \in ret[1].inv

C2_Witness ==
    /\ Returned
    /\ ret[1].thrAt > 0
    /\ \E k \in 1..Len(ret[1].cp) :
          k > ret[1].thrAt /\ ShouldFire(ret[1].cp[k], ret[1]) /\ ret[1].cp[k].id \in ret[1].inv

\* C3: no listener error leaves emit, and after an emit in which a listener threw
\* the registry is the snapshot without its matching once entries: the thrower is
\* removed if it is once and retained if it is not
C3_ThrowLeavesRegistryIntact ==
    /\ ~surfaced
    /\ Returned /\ ret[1].thrAt > 0 =>
          /\ handlers = SelectSeq(ret[1].cp, LAMBDA h : ~(h.once /\ ShouldFire(h, ret[1])))
          /\ ret[1].cp[ret[1].thrAt].once <=> ret[1].cp[ret[1].thrAt].id \notin Ids(handlers)

C3_Witness ==
    /\ Returned
    /\ ret[1].thrAt > 0
    /\ \E k \in 1..Len(ret[1].cp) :
          /\ k # ret[1].thrAt
          /\ ret[1].cp[k].once # ret[1].cp[ret[1].thrAt].once
          /\ ShouldFire(ret[1].cp[k], ret[1])

\* C4: an entry subscribed by a listener of an emit is not called by that emit
C4_SubscribedDuringEmitNotCalled ==
    \A f \in Activations : \A h \in f.added : h.id \notin f.inv

C4_Witness ==
    /\ Returned
    /\ \E h \in ret[1].added : ShouldFire(h, ret[1])

\* C5: an entry subscribed by a listener of an emit, and not unsubscribed in it, is
\* in the registry when that emit has returned
C5_SubscribedDuringEmitRegistered ==
    Returned /\ ~ret[1].nested =>
        \A h \in ret[1].added : h.id \notin ret[1].offs => h.id \in Ids(handlers)

\* C6: a handler whose listener called off for its own entry is not called again
C6_SelfOffNotCalledAgain ==
    \A k \in 1..Len(stack) : stack[k].inCall => stack[k].cur[1].id \notin selfOff

\* C7: the mode handed to emit for a message whose sender is its source character
\* is the set of the widening table for (source, target, observer)
C7_ClassificationTable ==
    cls.done /\ cls.info /\ cls.sender = cls.source =>
        cls.out =
            IF cls.source = cls.player /\ cls.target = cls.player
            THEN {"SelfOnSelf", "AnyOnSelf", "SelfInvolved", "AnyInvolved"}
            ELSE IF cls.target = cls.player
            THEN {"OthersOnSelf", "AnyOnSelf", "SelfInvolved", "AnyInvolved"}
            ELSE IF cls.source = cls.player
            THEN {"SelfOnOthers", "SelfInvolved", "AnyInvolved"}
            ELSE {"AnyInvolved"}

C7_Witness ==
    /\ cls.done
    /\ cls.info
    /\ cls.sender = cls.source
    /\ cls.source # cls.player
    /\ cls.target # cls.player
    /\ cls.source # cls.target
    /\ cls.out = {"AnyInvolved"}

\* C8: the entries of the snapshot an emit has called are exactly those it has
\* reached whose mode is in the mode set and whose activity is null or the
\* emitted activity
C8_CalledIffMatches ==
    \A f \in Activations :
        f.inv = {f.cp[k].id : k \in {j \in Decided(f) : ShouldFire(f.cp[j], f)}}

C8_Witness ==
    /\ Returned
    /\ ret[1].activityName = "Slap"
    /\ \E k \in 1..Len(ret[1].cp) :
          ret[1].cp[k].activity = Null /\ ret[1].cp[k].id \in ret[1].inv
    /\ \E k \in 1..Len(ret[1].cp) :
          ret[1].cp[k].activity = "Kiss" /\ ret[1].cp[k].id \notin ret[1].inv

\* C9: off without a listener removes the entries with that mode and that activity
\* and no other, and keeps the order of the rest
C9_OffAllRemovesExactPair ==
    OffReturned /\ ret[1].listener = Undefined =>
        LET before == ret[1].before
            gone == {k \in 1..Len(before) :
                        before[k].mode = ret[1].mode /\ before[k].activity = ret[1].activity}
        IN  /\ Ids(handlers) = {before[k].id : k \in (1..Len(before)) \ gone}
            /\ handlers = SelectSeq(before, LAMBDA h : h.id \in Ids(handlers))

C9_Witness ==
    /\ OffReturned
    /\ ret[1].listener = Undefined
    /\ ret[1].activity = Null
    /\ Len(handlers) = 2
    /\ Len(ret[1].before) = 3
    /\ \E k \in 1..2 : handlers[k].mode = ret[1].mode /\ handlers[k].activity # Null
    /\ \E k \in 1..2 : handlers[k].mode # ret[1].mode /\ handlers[k].activity = Null

\* C10: off with a listener removes the entries with that mode, that activity and
\* that listener, and no other
C10_OffOneRemovesExactTriple ==
    OffReturned /\ ret[1].listener # Undefined =>
        LET before == ret[1].before
            gone == {k \in 1..Len(before) :
                        /\ before[k].mode = ret[1].mode
                        /\ before[k].activity = ret[1].activity
                        /\ before[k].listener = ret[1].listener}
        IN  /\ Ids(handlers) = {before[k].id : k \in (1..Len(before)) \ gone}
            /\ handlers = SelectSeq(before, LAMBDA h : h.id \in Ids(handlers))

C10_Witness ==
    /\ OffReturned
    /\ ret[1].listener # Undefined
    /\ Len(handlers) = 1
    /\ Len(ret[1].before) = 3
    /\ handlers[1].mode = ret[1].mode
    /\ handlers[1].activity = ret[1].activity
    /\ handlers[1].listener # ret[1].listener
    /\ \E j, k \in 1..3 : ret[1].before[j].once /\ ~ret[1].before[k].once

\* C11: an off whose arguments equal no registered entry leaves the registry as it
\* was, entries and order
C11_OffWithoutMatchIsNoOp ==
    OffReturned =>
        LET before == ret[1].before
            hit(h) == /\ h.mode = ret[1].mode
                      /\ h.activity = ret[1].activity
                      /\ ret[1].listener \in {Undefined, h.listener}
        IN  (\A k \in 1..Len(before) : ~hit(before[k])) => handlers = before

C11_Witness ==
    /\ OffReturned
    /\ Len(ret[1].before) = 2
    /\ handlers = ret[1].before
    /\ ret[1].listener # Undefined
    /\ \E k \in 1..2 : /\ handlers[k].mode = ret[1].mode
                        /\ handlers[k].activity = ret[1].activity
                        /\ handlers[k].listener # ret[1].listener
    /\ \E k \in 1..2 : handlers[k].mode # ret[1].mode

\* C12: every subscribe call appends one entry to the registry, whatever is
\* registered already, and an emit that has returned called every one of the equal
\* (mode, activity, listener) entries of its snapshot that match the event
C12_NoMergeDuplicatesFire ==
    /\ [][nextId' # nextId =>
            /\ Len(handlers') = Len(handlers) + 1
            /\ SubSeq(handlers', 1, Len(handlers)) = handlers
            /\ handlers'[Len(handlers')].id = nextId]_vars
    /\ [](Returned =>
            \A k \in 1..Len(ret[1].cp) :
                LET same == {j \in 1..Len(ret[1].cp) :
                                /\ ret[1].cp[j].mode = ret[1].cp[k].mode
                                /\ ret[1].cp[j].activity = ret[1].cp[k].activity
                                /\ ret[1].cp[j].listener = ret[1].cp[k].listener}
                IN  ShouldFire(ret[1].cp[k], ret[1]) =>
                        Cardinality({ret[1].cp[j].id : j \in same} \cap ret[1].inv)
                            = Cardinality(same))

C12_Witness ==
    /\ Returned
    /\ Len(ret[1].cp) = 3
    /\ \A j \in 1..3 :
          /\ ret[1].cp[j].mode = ret[1].cp[1].mode
          /\ ret[1].cp[j].activity = ret[1].cp[1].activity
          /\ ret[1].cp[j].listener = ret[1].cp[1].listener
          /\ ret[1].cp[j].once = ret[1].cp[1].once
    /\ Cardinality(ret[1].inv) = 3

\* C13: while a listener runs, the matching entries of the snapshot that have been
\* called are exactly those registered no later than the running one (Handler
\* ids count the registrations): matching listeners are called in registration order
C13_CalledInRegistrationOrder ==
    \A k \in 1..Len(stack) :
        stack[k].inCall =>
            \A j \in 1..Len(stack[k].cp) :
                ShouldFire(stack[k].cp[j], stack[k]) =>
                    (stack[k].cp[j].id \in stack[k].inv <=> stack[k].cp[j].id <= stack[k].cur[1].id)

C13_Witness ==
    /\ ~AtRest
    /\ Top.inCall
    /\ Len(Top.cp) = 2
    /\ Running.id = 3
    /\ Cardinality(Top.inv) = 2
    /\ fired # {}

\* C14: when an emit has returned, a once entry of its snapshot that matched the
\* event is not in the registry, and every other entry of the snapshot is in the
\* registry exactly once
C14_OnceGoneOthersStay ==
    Returned =>
        \A k \in 1..Len(ret[1].cp) :
            LET h == ret[1].cp[k]
                copies == {j \in 1..Len(handlers) : handlers[j] = h}
            IN  IF h.once /\ ShouldFire(h, ret[1])
                THEN copies = {}
                ELSE Cardinality(copies) = 1

C14_Witness ==
    /\ Returned
    /\ Len(ret[1].cp) = 3
    /\ Len(handlers) = 2
    /\ \E k \in 1..3 : ret[1].cp[k].once /\ ShouldFire(ret[1].cp[k], ret[1])
    /\ \E k \in 1..3 : ~ret[1].cp[k].once /\ ShouldFire(ret[1].cp[k], ret[1])
    /\ \E k \in 1..3 : ret[1].cp[k].once /\ ~ShouldFire(ret[1].cp[k], ret[1])

\* C15: an entry of the snapshot that matches the event is called by the emit also
\* when a listener of that emit has removed it with off
C15_OffDuringEmitStillCalled ==
    Returned =>
        \A k \in 1..Len(ret[1].cp) :
            ret[1].cp[k].id \in ret[1].offs /\ ShouldFire(ret[1].cp[k], ret[1]) =>
                ret[1].cp[k].id \in ret[1].inv

\* the listener of an entry runs that an earlier listener of the same emit removed
C15_Witness ==
    /\ ~AtRest
    /\ Top.inCall
    /\ ~Top.offSelf
    /\ Running.id \in Top.offs
    /\ Running.id \notin Ids(handlers)

\* C16: an entry that a listener of an emit removed with off, the listener's own
\* entry aside, is not in the registry when that emit has returned
C16_OffDuringEmitTakesEffect ==
    Returned /\ ~ret[1].nested =>
        \A id \in ret[1].offs \ selfOff : id \notin Ids(handlers)

\* C17: an emit does not call a once handler that a nested emit, started by one of
\* its listeners, has called and removed, and when the emit has returned that
\* handler is not in the registry
C17_NestedEmitKeepsOnceRemoved ==
    /\ \A f \in Activations : ~f.recalled
    /\ Returned => Ids(handlers) \cap ret[1].nestedOnce = {}

\* C18: of the match-any entries an emit has reached, one on AnyInvolved has been
\* called whatever the message, one on AnyOnSelf exactly when the target is the
\* player, one on SelfInvolved exactly when the source or the target is the player
C18_WideModesSubsumeNarrow ==
    \A f \in Activations :
        \A k \in Decided(f) :
            LET h == f.cp[k]
                called == h.id \in f.inv
            IN  h.activity = Null =>
                    /\ h.mode = "AnyInvolved" => called
                    /\ h.mode = "AnyOnSelf" => (called <=> f.target = Player)
                    /\ h.mode = "SelfInvolved" =>
                          (called <=> (f.source = Player \/ f.target = Player))

C18_Witness ==
    /\ Returned
    /\ ret[1].source = Player
    /\ ret[1].target # Player
    /\ Len(ret[1].cp) = 3
    /\ {ret[1].cp[k].mode : k \in 1..3} = WideModes
    /\ Cardinality(ret[1].inv) = 2

\* C19: when an emit called at rest has returned, the registry is its snapshot, in
\* order, without the once entries that matched, whatever its listeners called
C19_RegistryAfterEmitIsRebuiltSnapshot ==
    Returned /\ AtRest =>
        /\ Ids(handlers) =
              {ret[1].cp[k].id : k \in {j \in 1..Len(ret[1].cp) :
                  ~(ret[1].cp[j].once /\ ShouldFire(ret[1].cp[j], ret[1]))}}
        /\ handlers = SelectSeq(ret[1].cp, LAMBDA h : h.id \in Ids(handlers))

C19_Witness ==
    /\ Returned
    /\ AtRest
    /\ ret[1].offs # {}
    /\ Len(ret[1].cp) = 3
    /\ Len(handlers) = 2
    /\ handlers[1].id < handlers[2].id

\* a listener of the emit subscribed, and the new entry is not in the registry
C19_WitnessSubscribed ==
    /\ Returned
    /\ AtRest
    /\ ret[1].added # {}
    /\ Len(handlers) = 1

\* C20: an emit visits each entry of its snapshot at most once and no other entry:
\* its loop position never passes the end of the snapshot, it has called no more
\* listeners than the positions it has passed, and no more than the registry held
\* when it started, whatever its listeners subscribed meanwhile
C20_EmitVisitsSnapshotOnce ==
    \A f \in Activations :
        /\ f.i <= Len(f.cp) + 1
        /\ f.inv \subseteq {f.cp[k].id : k \in Decided(f)}
        /\ Cardinality(f.inv) <= Len(f.cp)
        /\ Len(f.n) <= Len(f.cp)

C20_Witness ==
    /\ Returned
    /\ ~ret[1].nested
    /\ ret[1].thrAt = 0
    /\ Len(ret[1].cp) = 2
    /\ Cardinality(ret[1].inv) = 2
    /\ \E h \in ret[1].added : \E k \in 1..2 :
          /\ h.mode = ret[1].cp[k].mode
          /\ h.activity = ret[1].cp[k].activity
          /\ h.listener = ret[1].cp[k].listener
          /\ h.once = ret[1].cp[k].once
====
